---- MODULE Spec2Model ----
(***************************************************************************)
(* Model of the free-form food logging pipeline of bot.py:                 *)
(* parse_food_text (three regular expressions, clean_food_name, the        *)
(* duplicate filter), match_known_food (difflib.get_close_matches),        *)
(* scale_macros, and the handler free_form_input with its two external     *)
(* collaborators get_macros_from_ai and add_food_to_notion.                *)
(*                                                                         *)
(* A Python str is modelled as a sequence of one-character strings, so     *)
(* that the regular expressions are evaluated character by character.      *)
(***************************************************************************)
EXTENDS Integers, Sequences, FiniteSets, TLC

---------------------------------------------------------------------------
(* Characters and character classes of the re module                       *)

LowerLetters ==
  <<"a", "b", "c", "d", "e", "f", "g", "h", "i", "j", "k", "l", "m", "n", "o", "p", "q", "r", "s", "t", "u", "v", "w", "x", "y", "z">>

UpperLetters ==
  <<"A", "B", "C", "D", "E", "F", "G", "H", "I", "J", "K", "L", "M", "N", "O", "P", "Q", "R", "S", "T", "U", "V", "W", "X", "Y", "Z">>

DigitChars ==
  <<"0", "1", "2", "3", "4", "5", "6", "7", "8", "9">>

SetOf(seq) ==
  {seq[i] : i \in 1..Len(seq)}

\* [a-z], [A-Z], [a-zA-Z], \d, \s and \w over the characters of the model
Lower == SetOf(LowerLetters)

Upper == SetOf(UpperLetters)

Alpha == Lower \cup Upper

Digit == SetOf(DigitChars)

Space == {" "}

AlphaSpace == Alpha \cup Space

WordChar == Alpha \cup Digit

\* str.lower() and str.upper() on one character
LowerOf ==
  [c \in Upper |-> LowerLetters[CHOOSE i \in 1..26 : UpperLetters[i] = c]]

UpperOf ==
  [c \in Lower |-> UpperLetters[CHOOSE i \in 1..26 : LowerLetters[i] = c]]

lower_char(c) ==
  IF c \in Upper THEN LowerOf[c] ELSE c

upper_char(c) ==
  IF c \in Lower THEN UpperOf[c] ELSE c

\* str.lower()
lower(s) ==
  [i \in 1..Len(s) |-> lower_char(s[i])]

\* s[i:j] with 1-based i and exclusive j
Slice(s, i, j) ==
  SubSeq(s, i, j - 1)

\* the position after the longest run of characters of class cls that starts at i
RECURSIVE RunEnd(_, _, _)
RunEnd(s, i, cls) ==
  IF i <= Len(s) /\ s[i] \in cls THEN RunEnd(s, i + 1, cls) ELSE i

\* s.startswith(w, i - 1)
StartsWithAt(s, i, w) ==
  /\ i + Len(w) - 1 <= Len(s)
  /\ Slice(s, i, i + Len(w)) = w

\* float(match.group(1)) of a digit string (integer valued)
RECURSIVE ParseInt(_)
ParseInt(ds) ==
  IF ds = <<>> THEN 0
  ELSE 10 * ParseInt(Slice(ds, 1, Len(ds)))
       + ((CHOOSE i \in 1..10 : DigitChars[i] = ds[Len(ds)]) - 1)

---------------------------------------------------------------------------
(* clean_food_name                                                         *)

StopWords ==
  {<<"p", "i", "e", "c", "e", "s">>,
   <<"p", "i", "e", "c", "e">>,
   <<"g">>,
   <<"g", "r", "a", "m", "s">>,
   <<"g", "r", "a", "m">>,
   <<"o", "f">>,
   <<"t", "h", "e">>,
   <<"a", "n", "d">>,
   <<"w", "i", "t", "h">>}

\* where a match of r'\d+\.?\d*\s*' that starts at the digit s[i] ends
NumberEnd(s, i) ==
  LET SkipDot(d) == IF d <= Len(s) /\ s[d] = "." THEN d + 1 ELSE d
  IN  RunEnd(s, RunEnd(s, SkipDot(RunEnd(s, i, Digit)), Digit), Space)

\* re.sub(r'\d+\.?\d*\s*', '', s), scanning from position i
RECURSIVE StripNumbers(_, _)
StripNumbers(s, i) ==
  IF i > Len(s) THEN <<>>
  ELSE IF s[i] \in Digit THEN StripNumbers(s, NumberEnd(s, i))
  ELSE <<s[i]>> \o StripNumbers(s, i + 1)

\* re.sub(r'\b(pieces|piece|g|grams|gram|of|the|and|with)\b', '', s, flags=re.IGNORECASE),
\* scanning from position i: a match starts and ends at a word boundary, so it is
\* a whole run of word characters
RECURSIVE StripStopWords(_, _)
StripStopWords(s, i) ==
  LET Kept(w) == IF lower(w) \in StopWords THEN <<>> ELSE w
      Word(e) == Kept(Slice(s, i, e)) \o StripStopWords(s, e)
  IN  IF i > Len(s) THEN <<>>
      ELSE IF s[i] \in WordChar THEN Word(RunEnd(s, i, WordChar))
      ELSE <<s[i]>> \o StripStopWords(s, i + 1)

\* the position after the longest run of characters outside cls that starts at i
RECURSIVE RunEndNot(_, _, _)
RunEndNot(s, i, cls) ==
  IF i <= Len(s) /\ s[i] \notin cls THEN RunEndNot(s, i + 1, cls) ELSE i

\* s.split(): the whitespace-separated words of s from position i
RECURSIVE Split(_, _)
Split(s, i) ==
  LET Word(b, e) == <<Slice(s, b, e)>> \o Split(s, e)
      From(b) == IF b > Len(s) THEN <<>> ELSE Word(b, RunEndNot(s, b, Space))
  IN  From(RunEnd(s, i, Space))

\* word.capitalize()
capitalize(w) ==
  [i \in 1..Len(w) |-> IF i = 1 THEN upper_char(w[i]) ELSE lower_char(w[i])]

\* ' '.join(word.capitalize() for word in words)
RECURSIVE JoinCapitalized(_)
JoinCapitalized(words) ==
  IF words = <<>> THEN <<>>
  ELSE IF Len(words) = 1 THEN capitalize(words[1])
  ELSE capitalize(words[1]) \o <<" ">> \o JoinCapitalized(Tail(words))

\* re.sub(r'\s+', ' ', s).strip() followed by split/capitalize/join gives the
\* capitalized words of s joined by single spaces
clean_food_name(food_name) ==
  JoinCapitalized(Split(StripStopWords(StripNumbers(food_name, 1), 1), 1))

\* str.strip()
strip(s) ==
  LET Last(b) == CHOOSE j \in b..Len(s) :
                   s[j] \notin Space /\ \A k \in (j + 1)..Len(s) : s[k] \in Space
      From(b) == IF b > Len(s) THEN <<>> ELSE Slice(s, b, Last(b) + 1)
  IN  From(RunEnd(s, 1, Space))

---------------------------------------------------------------------------
(* parse_food_text                                                         *)

standard_servings ==
  (<<"b", "a", "n", "a", "n", "a">> :> 120 @@
   <<"b", "a", "n", "a", "n", "a", "s">> :> 120 @@
   <<"a", "p", "p", "l", "e">> :> 182 @@
   <<"a", "p", "p", "l", "e", "s">> :> 182 @@
   <<"o", "r", "a", "n", "g", "e">> :> 131 @@
   <<"o", "r", "a", "n", "g", "e", "s">> :> 131 @@
   <<"e", "g", "g">> :> 50 @@
   <<"e", "g", "g", "s">> :> 50 @@
   <<"s", "l", "i", "c", "e", " ", "b", "r", "e", "a", "d">> :> 28 @@
   <<"b", "r", "e", "a", "d">> :> 28 @@
   <<"t", "b", "s", "p", " ", "o", "i", "l">> :> 14 @@
   <<"t", "b", "s", "p", " ", "o", "l", "i", "v", "e", " ", "o", "i", "l">> :> 14 @@
   <<"t", "a", "b", "l", "e", "s", "p", "o", "o", "n", " ", "o", "i", "l">> :> 14 @@
   <<"t", "s", "p", " ", "o", "i", "l">> :> 5 @@
   <<"t", "e", "a", "s", "p", "o", "o", "n", " ", "o", "i", "l">> :> 5 @@
   <<"c", "h", "i", "c", "k", "e", "n", " ", "b", "r", "e", "a", "s", "t">> :> 100 @@
   <<"c", "h", "i", "c", "k", "e", "n">> :> 100 @@
   <<"r", "i", "c", "e">> :> 100 @@
   <<"w", "h", "i", "t", "e", " ", "r", "i", "c", "e">> :> 100 @@
   <<"b", "r", "o", "w", "n", " ", "r", "i", "c", "e">> :> 100 @@
   <<"p", "a", "s", "t", "a">> :> 100 @@
   <<"s", "p", "a", "g", "h", "e", "t", "t", "i">> :> 100 @@
   <<"i", "c", "e", " ", "c", "r", "e", "a", "m">> :> 66 @@
   <<"v", "a", "n", "i", "l", "l", "a", " ", "i", "c", "e", " ", "c", "r", "e", "a", "m">> :> 66 @@
   <<"i", "c", "e", "c", "r", "e", "a", "m">> :> 66 @@
   <<"m", "i", "l", "k">> :> 240 @@
   <<"w", "a", "t", "e", "r">> :> 240 @@
   <<"c", "o", "f", "f", "e", "e">> :> 240 @@
   <<"t", "e", "a">> :> 240)

\* standard_servings.get(key, 100)
DefaultServing == 100

standard_serving(key) ==
  IF key \in DOMAIN standard_servings THEN standard_servings[key] ELSE DefaultServing

\* the alternation (tbsp|tsp|tablespoon|teaspoon), in the order the regex tries it
TBSP == <<"t", "b", "s", "p">>

TSP == <<"t", "s", "p">>

TABLESPOON == <<"t", "a", "b", "l", "e", "s", "p", "o", "o", "n">>

TEASPOON == <<"t", "e", "a", "s", "p", "o", "o", "n">>

UnitAlternation == <<TBSP, TSP, TABLESPOON, TEASPOON>>

UNIT_G == <<"g">>

UNIT_PIECES == <<"p", "i", "e", "c", "e", "s">>

NoMatch == [ok |-> FALSE]

Matched(i, e, groups) ==
  [ok |-> TRUE, start |-> i, end |-> e, groups |-> groups]

\* r'(\d+)\s*g\s*([a-zA-Z][a-zA-Z\s]*)' matched at position i: d is where
\* (\d+) ends, g where the \s* after it ends, a where the \s* after the g ends
\* and e where the second group ends
Pattern1At(s, i) ==
  LET Food(d, a, e) == Matched(i, e, <<Slice(s, i, d), Slice(s, a, e)>>)
      AfterG(d, a) == IF a <= Len(s) /\ s[a] \in Alpha
                        THEN Food(d, a, RunEnd(s, a, AlphaSpace)) ELSE NoMatch
      AfterSpace(d, g) == IF g <= Len(s) /\ s[g] = "g"
                            THEN AfterG(d, RunEnd(s, g + 1, Space)) ELSE NoMatch
      AfterDigits(d) == IF d > i THEN AfterSpace(d, RunEnd(s, d, Space)) ELSE NoMatch
  IN  AfterDigits(RunEnd(s, i, Digit))

\* r'(\d+)\s+([a-zA-Z][a-zA-Z\s]*)' matched at position i: d is where (\d+)
\* ends, a where the \s+ ends and e where the second group ends
Pattern2At(s, i) ==
  LET Food(d, a, e) == Matched(i, e, <<Slice(s, i, d), Slice(s, a, e)>>)
      AfterSpace(d, a) == IF a > d /\ a <= Len(s) /\ s[a] \in Alpha
                            THEN Food(d, a, RunEnd(s, a, AlphaSpace)) ELSE NoMatch
      AfterDigits(d) == IF d > i THEN AfterSpace(d, RunEnd(s, d, Space)) ELSE NoMatch
  IN  AfterDigits(RunEnd(s, i, Digit))

\* r'(\d+)\s*(tbsp|tsp|tablespoon|teaspoon)\s+([a-zA-Z\s]+)' matched at position
\* i: d is where (\d+) ends, u where the \s* ends, v where the unit ends, a where
\* the \s+ ends and e where the letters and spaces after it end; when no letter
\* follows the whitespace after the unit, \s+ gives its last character back to
\* the third group
Pattern3At(s, i) ==
  LET Food(d, unit, v, a, e) ==
        IF a > v /\ e > a
          THEN Matched(i, e, <<Slice(s, i, d), unit, Slice(s, a, e)>>)
        ELSE IF a > v + 1
          THEN Matched(i, a, <<Slice(s, i, d), unit, Slice(s, a - 1, a)>>)
        ELSE NoMatch
      AfterUnit(d, unit, v, a) == Food(d, unit, v, a, RunEnd(s, a, AlphaSpace))
      WithUnit(d, u, unit) ==
        AfterUnit(d, unit, u + Len(unit), RunEnd(s, u + Len(unit), Space))
      First(hits) == CHOOSE k \in hits : \A j \in hits : k <= j
      Units(d, u, hits) ==
        IF hits # {} THEN WithUnit(d, u, UnitAlternation[First(hits)]) ELSE NoMatch
      AfterSpace(d, u) ==
        Units(d, u, {k \in 1..Len(UnitAlternation) :
                       StartsWithAt(s, u, UnitAlternation[k])})
      AfterDigits(d) == IF d > i THEN AfterSpace(d, RunEnd(s, d, Space)) ELSE NoMatch
  IN  AfterDigits(RunEnd(s, i, Digit))

PatternAt(k, s, i) ==
  CASE k = 1 -> Pattern1At(s, i)
    [] k = 2 -> Pattern2At(s, i)
    [] k = 3 -> Pattern3At(s, i)

\* re.finditer(pattern k, s): the leftmost match from position p on, then the
\* search goes on where that match ended
RECURSIVE FindIter(_, _, _)
FindIter(k, s, p) ==
  LET Step(m) == IF m.ok THEN <<m>> \o FindIter(k, s, m.end)
                 ELSE FindIter(k, s, p + 1)
  IN  IF p > Len(s) THEN <<>> ELSE Step(PatternAt(k, s, p))

\* the body of the loop over Pattern 1's matches: what it appends
Item1(m) ==
  LET Appended(serving, food) ==
        IF food # <<>>
          THEN <<[food |-> food, serving |-> serving, unit |-> UNIT_G]>>
          ELSE <<>>
  IN  Appended(ParseInt(m.groups[1]), clean_food_name(m.groups[2]))

\* the body of the loop over Pattern 2's matches: what it appends
Item2(m) ==
  LET Appended(quantity, food) ==
        IF food # <<>>
          THEN <<[food |-> food,
                  serving |-> standard_serving(lower(food)) * quantity,
                  unit |-> UNIT_PIECES,
                  quantity |-> quantity]>>
          ELSE <<>>
  IN  Appended(ParseInt(m.groups[1]), clean_food_name(m.groups[2]))

\* the body of the loop over Pattern 3's matches: what it appends
Item3(m) ==
  LET unit_multiplier(unit) == IF unit \in {TBSP, TABLESPOON} THEN 14 ELSE 5
      display_name(food, unit) ==
        IF unit \in {TBSP, TSP} THEN food \o <<" ", "(">> \o unit \o <<")">> ELSE food
      Appended(quantity, unit, food) ==
        IF food # <<>>
          THEN <<[food |-> display_name(food, unit),
                  serving |-> quantity * unit_multiplier(unit),
                  unit |-> unit,
                  quantity |-> quantity]>>
          ELSE <<>>
  IN  Appended(ParseInt(m.groups[1]), m.groups[2], clean_food_name(m.groups[3]))

ItemOf(k, m) ==
  CASE k = 1 -> Item1(m)
    [] k = 2 -> Item2(m)
    [] k = 3 -> Item3(m)

\* the loop over the matches ms of pattern k
RECURSIVE ItemsFrom(_, _)
ItemsFrom(k, ms) ==
  IF ms = <<>> THEN <<>>
  ELSE ItemOf(k, Head(ms)) \o ItemsFrom(k, Tail(ms))

ItemsOf(k, s) ==
  ItemsFrom(k, FindIter(k, s, 1))

\* a variant that takes the patterns in the opposite order
PotentialItemsLastPatternFirst(s) ==
  ItemsOf(3, s) \o ItemsOf(2, s) \o ItemsOf(1, s)

\* potential_items: Pattern 1's items, then Pattern 2's, then Pattern 3's
PotentialItems(s) ==
  ItemsOf(1, s) \o ItemsOf(2, s) \o ItemsOf(3, s)

potential_items(text) ==
  PotentialItems(lower(text))

\* a variant that keeps every item whose name has 2 characters or more
RECURSIVE FilterItemsKeepingDuplicates(_, _, _)
FilterItemsKeepingDuplicates(items, i, seen) ==
  IF i > Len(items) THEN <<>>
  ELSE IF Len(strip(items[i].food)) < 2
    THEN FilterItemsKeepingDuplicates(items, i + 1, seen)
  ELSE <<items[i]>> \o FilterItemsKeepingDuplicates(items, i + 1, seen)

\* "Filter out invalid items and duplicates": the loop over potential_items
\* from index i with the set seen
RECURSIVE FilterItems(_, _, _)
FilterItems(items, i, seen) ==
  LET Step(food_name) ==
        IF Len(food_name) < 2 THEN FilterItems(items, i + 1, seen)
        ELSE IF food_name \notin seen
          THEN <<items[i]>> \o FilterItems(items, i + 1, seen \cup {food_name})
          ELSE FilterItems(items, i + 1, seen)
  IN  IF i > Len(items) THEN <<>> ELSE Step(strip(items[i].food))

parse_food_text(text) ==
  FilterItems(potential_items(text), 1, {})

---------------------------------------------------------------------------
(* match_known_food: difflib.get_close_matches(food_name.lower(), keys, 1, 0.85) *)

None == "None"

\* Python's order on characters (code points) and on str
CodeOrder ==
  <<" ", "(", ")", ",", ".">> \o DigitChars \o UpperLetters \o LowerLetters

Code(c) ==
  CHOOSE i \in 1..Len(CodeOrder) : CodeOrder[i] = c

RECURSIVE StrLess(_, _)
StrLess(x, y) ==
  IF y = <<>> THEN FALSE
  ELSE IF x = <<>> THEN TRUE
  ELSE IF x[1] = y[1] THEN StrLess(Tail(x), Tail(y))
  ELSE Code(x[1]) < Code(y[1])

\* the length of the block a[i..] = b[j..] inside a[..ahi-1], b[..bhi-1]
RECURSIVE CommonLen(_, _, _, _, _, _)
CommonLen(a, b, i, j, ahi, bhi) ==
  IF i < ahi /\ j < bhi /\ a[i] = b[j]
  THEN 1 + CommonLen(a, b, i + 1, j + 1, ahi, bhi)
  ELSE 0

\* SequenceMatcher.find_longest_match(alo, ahi, blo, bhi) without junk: the
\* longest matching block, of those the one that starts earliest in a, and of
\* those the one that starts earliest in b; <<alo, blo, 0>> when nothing matches.
\* A block is <<size, i, j>> here and <<i, j, size>> in the result.
find_longest_match(a, b, alo, ahi, blo, bhi) ==
  LET Before(x, y) ==
        \/ x[1] > y[1]
        \/ x[1] = y[1] /\ x[2] < y[2]
        \/ x[1] = y[1] /\ x[2] = y[2] /\ x[3] <= y[3]
      Result(x) == IF x[1] = 0 THEN <<alo, blo, 0>> ELSE <<x[2], x[3], x[1]>>
      Best(blocks) ==
        IF blocks = {} THEN <<alo, blo, 0>>
        ELSE Result(CHOOSE x \in blocks : \A y \in blocks : Before(x, y))
  IN  Best({<<CommonLen(a, b, i, j, ahi, bhi), i, j>> :
              i \in alo..(ahi - 1), j \in blo..(bhi - 1)})

\* the sum of the sizes of SequenceMatcher.get_matching_blocks() on
\* a[alo..ahi-1], b[blo..bhi-1]
RECURSIVE matches(_, _, _, _, _, _)
matches(a, b, alo, ahi, blo, bhi) ==
  LET Around(i, j, k) ==
        IF k = 0 THEN 0
        ELSE k
             + (IF alo < i /\ blo < j THEN matches(a, b, alo, i, blo, j) ELSE 0)
             + (IF i + k < ahi /\ j + k < bhi
                  THEN matches(a, b, i + k, ahi, j + k, bhi) ELSE 0)
      Block(x) == Around(x[1], x[2], x[3])
  IN  Block(find_longest_match(a, b, alo, ahi, blo, bhi))

\* SequenceMatcher(a=x, b=word).ratio() = 2.0 * M / T as the pair <<2M, T>>
ratio(a, b) ==
  <<2 * matches(a, b, 1, Len(a) + 1, 1, Len(b) + 1), Len(a) + Len(b)>>

\* cutoff=0.85 as a percentage
CutoffPercent == 85

\* ratio >= cutoff (real_quick_ratio and quick_ratio are upper bounds of ratio,
\* so their tests never reject what ratio accepts)
AtLeastCutoff(r) ==
  IF r[2] = 0 THEN TRUE ELSE 100 * r[1] >= CutoffPercent * r[2]

\* (score1, x1) < (score2, x2) as heapq.nlargest compares the result tuples
ScoredLess(r1, x1, r2, x2) ==
  \/ r1[1] * r2[2] < r2[1] * r1[2]
  \/ r1[1] * r2[2] = r2[1] * r1[2] /\ StrLess(x1, x2)

\* get_close_matches(word, possibilities, n=1, cutoff): the best scoring
\* possibility among those whose ratio reaches the cutoff, as a list; result
\* holds the pairs <<score, x>> of the function's list of that name
get_close_matches(word, possibilities) ==
  LET Largest(result) ==
        IF result = {} THEN <<>>
        ELSE <<(CHOOSE p \in result :
                  \A q \in result : q = p \/ ScoredLess(q[1], q[2], p[1], p[2]))[2]>>
      Scored(all) == Largest({p \in all : AtLeastCutoff(p[1])})
  IN  Scored({<<ratio(x, word), x>> : x \in possibilities})

match_known_food(food_name, foods) ==
  LET Result(close) == IF close # <<>> THEN close[1] ELSE None
  IN  Result(get_close_matches(lower(food_name), DOMAIN foods))

---------------------------------------------------------------------------
(* scale_macros                                                            *)
(* Quantities of the reference table are in thousandths (a JSON number     *)
(* with up to three decimals); resolved quantities are in hundredths,      *)
(* which is what round(x, 2) returns.                                      *)

MacroFields == {"Calories", "Protein", "Carbohydrates", "Fats"}

Abs(n) ==
  IF n < 0 THEN 0 - n ELSE n

\* round(num / den, 2 decimals): the integers nearest to num / den. A value
\* half way between two of them goes up or down with the binary representation
\* of the float (round(0.125, 2) = 0.12, round(0.5 * 0.01, 2) = 0.01), which the
\* model leaves open.
Round(num, den) ==
  LET f == num \div den
  IN  {q \in {f, f + 1} : 2 * Abs(q * den - num) <= den}

\* a variant that cuts the digits after the second decimal instead of rounding
scale_macros_truncating(base_macros, serving) ==
  {[f \in MacroFields |-> (base_macros[f] * serving) \div 1000]}

\* scale_macros(base_macros, serving): factor = serving / 100 and each field
\* round(base * factor, 2); base in thousandths, the result in hundredths
scale_macros(base_macros, serving) ==
  {[Calories |-> c, Protein |-> p, Carbohydrates |-> cb, Fats |-> f] :
     c  \in Round(base_macros.Calories * serving, 1000),
     p  \in Round(base_macros.Protein * serving, 1000),
     cb \in Round(base_macros.Carbohydrates * serving, 1000),
     f  \in Round(base_macros.Fats * serving, 1000)}

---------------------------------------------------------------------------
(* The collaborators of free_form_input                                    *)

\* What get_macros_from_ai can return: None (any exception, or the JSON null),
\* or json.loads(content), which nothing validates: an object with the four
\* numbers, an object with the four keys and no numbers ({"Calories": null,
\* ...}), or some other JSON value that is true in a condition ({"Calories": 95})
NoneMacros == [type |-> "None"]

AiNumbers ==
  [type |-> "numbers", Calories |-> 9500, Protein |-> 110,
   Carbohydrates |-> 2300, Fats |-> 30]

AiNulls == [type |-> "nulls"]

AiPartial == [type |-> "partial"]

get_macros_from_ai(food_name, serving_size) ==
  {NoneMacros, AiNumbers, AiNulls, AiPartial}

\* a variant that takes no estimate for an estimate
is_truthy_always(macros) ==
  TRUE

\* "if macros:"
is_truthy(macros) ==
  macros.type # "None"

\* macros["Calories"], ..., macros["Fats"] all exist
has_keys(macros) ==
  macros.type \in {"numbers", "nulls"}

Null == "null"

\* macros[field]
macro_value(macros, field) ==
  IF macros.type = "numbers" THEN macros[field] ELSE Null

\* int + macros['Calories'] is defined
is_number(macros) ==
  macros.type = "numbers"

\* What add_food_to_notion can return: False when building the properties
\* raises (a missing key) and whenever the database is not found or
\* notion.pages.create raises; True when the page is created
add_food_to_notion(food, serving, macros) ==
  IF has_keys(macros) THEN {TRUE, FALSE} ELSE {FALSE}

---------------------------------------------------------------------------
(* Inputs                                                                  *)

\* the number of phrases of a message
MaxPhrases == 2

\* the largest quantity written in a phrase of a message
MaxQuantity == 1

\* str(n)
RECURSIVE Decimal(_)
Decimal(n) ==
  IF n < 10 THEN <<DigitChars[n + 1]>>
  ELSE Decimal(n \div 10) \o <<DigitChars[(n % 10) + 1]>>

SP == <<" ">>

W_OIL == <<"o", "i", "l">>

W_EGG == <<"e", "g", "g">>

\* food names as typed, with the name clean_food_name is to give
FoodNames ==
  {[raw |-> W_OIL, norm |-> <<"O", "i", "l">>],
   [raw |-> <<"O", "l", "i", "v", "e", " ", "o", "i", "l">>,
    norm |-> <<"O", "l", "i", "v", "e", " ", "O", "i", "l">>],
   [raw |-> <<"e", "g", "g", "s">>, norm |-> <<"E", "g", "g", "s">>],
   [raw |-> <<"g", "r", "a", "p", "e", "s">>, norm |-> <<"G", "r", "a", "p", "e", "s">>],
   [raw |-> <<"a">>, norm |-> <<"A">>]}

Quantities == (0..MaxQuantity) \cup {100}

\* '<integer> <name>'
BarePhrase(q, n) ==
  Decimal(q) \o SP \o n

\* '<integer>g <name>' (sep empty) and '<integer> g <name>' (sep a space)
GramPhrase(q, sep, n) ==
  Decimal(q) \o sep \o <<"g", " ">> \o n

\* '<integer> <unit> <name>'
UnitPhrase(q, u, n) ==
  Decimal(q) \o SP \o u \o SP \o n

Phrases ==
  {BarePhrase(q, n.raw) : q \in Quantities, n \in FoodNames}
  \cup {GramPhrase(q, sep, n.raw) : q \in Quantities, sep \in {<<>>, SP}, n \in FoodNames}
  \cup {UnitPhrase(q, UnitAlternation[k], n.raw) :
          q \in Quantities, k \in 1..Len(UnitAlternation), n \in FoodNames}

\* the phrases of the messages the whole handler runs on: a word without a
\* number, and phrases for each of the three patterns
MealPhrases ==
  {W_OIL}
  \cup {BarePhrase(q, n) : q \in 0..MaxQuantity, n \in {W_OIL, W_EGG}}
  \cup {GramPhrase(q, <<>>, n) : q \in 0..MaxQuantity, n \in {W_OIL, W_EGG}}
  \cup {UnitPhrase(q, TBSP, n) : q \in 0..MaxQuantity, n \in {W_OIL, W_EGG}}

\* the messages of at most n phrases, one space between two phrases
RECURSIVE TextsOver(_, _)
TextsOver(phrases, n) ==
  IF n = 0 THEN {<<>>}
  ELSE LET shorter == TextsOver(phrases, n - 1)
       IN  shorter \cup phrases
           \cup {t \o SP \o p : t \in shorter \ {<<>>}, p \in phrases}

MealTexts == TextsOver(MealPhrases, MaxPhrases)

\* a phrase of the whole grammar, alone or followed by meal phrases
ParseTexts ==
  {<<>>}
  \cup {p \o (IF t = <<>> THEN <<>> ELSE SP \o t) :
          p \in Phrases, t \in TextsOver(MealPhrases, MaxPhrases - 1)}

\* food_reference.json: missing ({}), with lower case keys, with capitalized
\* keys; per 100 g, in thousandths
OilMacros ==
  [Calories |-> 884000, Protein |-> 0, Carbohydrates |-> 0, Fats |-> 99932]

EggMacros ==
  [Calories |-> 143000, Protein |-> 12560, Carbohydrates |-> 725, Fats |-> 9510]

KF_MISSING == <<>>

KF_LOWER == (W_OIL :> OilMacros) @@ (W_EGG :> EggMacros)

KF_TITLE == (<<"O", "i", "l">> :> OilMacros) @@ (<<"E", "g", "g">> :> EggMacros)

ReferenceTables == {KF_MISSING, KF_LOWER, KF_TITLE}

---------------------------------------------------------------------------
(* The handler free_form_input                                             *)

VARIABLES
  text,             \* update.message.text
  known_foods,      \* the module's table, loaded at import
  pc,               \* where the handler is: start, loop, done, crashed
  food_items,       \* parse_food_text(user_text)
  idx,              \* how many items the for loop has been through
  total_calories,
  successful_items,
  failed_items,
  calls,            \* the calls made to the matcher and the collaborators
  replies           \* the messages sent with reply_text

vars ==
  <<text, known_foods, pc, food_items, idx, total_calories,
    successful_items, failed_items, calls, replies>>

InitLocals ==
  /\ pc = "start"
  /\ food_items = <<>>
  /\ idx = 0
  /\ total_calories = 0
  /\ successful_items = <<>>
  /\ failed_items = <<>>
  /\ calls = <<>>
  /\ replies = <<>>

Init ==
  /\ text \in MealTexts
  /\ known_foods \in ReferenceTables
  /\ InitLocals

\* a variant that goes on to the loop and the summary when no item was parsed
FreeFormStartWithoutReturn ==
  /\ pc = "start"
  /\ food_items' = parse_food_text(text)
  /\ pc' = "loop"
  /\ UNCHANGED <<text, known_foods, idx, total_calories, successful_items,
                 failed_items, calls, replies>>

\* lines 269-278: parse the message; with no item, reply and end
FreeFormStart ==
  /\ pc = "start"
  /\ food_items' = parse_food_text(text)
  /\ IF food_items' = <<>>
       THEN /\ replies' = Append(replies, [kind |-> "not_identified"])
            /\ pc' = "done"
       ELSE /\ pc' = "loop"
            /\ UNCHANGED replies
  /\ UNCHANGED <<text, known_foods, idx, total_calories, successful_items,
                 failed_items, calls>>

MatchCall(food) ==
  [fn |-> "match_known_food", food |-> food]

\* a call of get_macros_from_ai with what it returned
AiCall(food, serving, result) ==
  [fn |-> "get_macros_from_ai", food |-> food, serving |-> serving, result |-> result]

NotionCall(food, serving, macros) ==
  [fn |-> "add_food_to_notion", food |-> food, serving |-> serving, macros |-> macros]

\* lines 293-308: what one iteration does with the macros it got, made is the
\* calls of the iteration so far
Record(food, serving, macros, made) ==
  IF is_truthy(macros)
  THEN \E success \in add_food_to_notion(food, serving, macros) :
         /\ calls' = calls \o made \o <<NotionCall(food, serving, macros)>>
         /\ IF success
            THEN /\ successful_items' =
                      Append(successful_items,
                             [name |-> food,
                              calories |-> macro_value(macros, "Calories"),
                              protein |-> macro_value(macros, "Protein"),
                              serving |-> serving])
                 /\ UNCHANGED failed_items
                 /\ IF is_number(macros)
                    THEN /\ total_calories' = total_calories + macros.Calories
                         /\ idx' = idx + 1
                         /\ pc' = "loop"
                    ELSE \* line 304 raises TypeError: the handler ends there
                         /\ pc' = "crashed"
                         /\ UNCHANGED <<total_calories, idx>>
            ELSE /\ failed_items' = Append(failed_items, food)
                 /\ idx' = idx + 1
                 /\ pc' = "loop"
                 /\ UNCHANGED <<successful_items, total_calories>>
  ELSE /\ calls' = calls \o made
       /\ failed_items' = Append(failed_items, food)
       /\ idx' = idx + 1
       /\ pc' = "loop"
       /\ UNCHANGED <<successful_items, total_calories>>

\* lines 280-288 and 293-308: an iteration whose item the table matches
ResolveFromDatabase ==
  /\ pc = "loop"
  /\ idx < Len(food_items)
  /\ \E item \in {food_items[idx + 1]} :
       \E matched \in {match_known_food(item.food, known_foods)} :
         /\ matched # None
         /\ \E scaled \in scale_macros(known_foods[matched], item.serving) :
              Record(item.food, item.serving,
                     [type |-> "numbers", Calories |-> scaled.Calories,
                      Protein |-> scaled.Protein,
                      Carbohydrates |-> scaled.Carbohydrates, Fats |-> scaled.Fats],
                     <<MatchCall(item.food)>>)
  /\ UNCHANGED <<text, known_foods, food_items, replies>>

\* lines 280-285, 289-291 and 293-308: an iteration whose item the table does not match
ResolveFromAI ==
  /\ pc = "loop"
  /\ idx < Len(food_items)
  /\ \E item \in {food_items[idx + 1]} :
       \E matched \in {match_known_food(item.food, known_foods)} :
         /\ matched = None
         /\ \E macros \in get_macros_from_ai(item.food, item.serving) :
              Record(item.food, item.serving, macros,
                     <<MatchCall(item.food), AiCall(item.food, item.serving, macros)>>)
  /\ UNCHANGED <<text, known_foods, food_items, replies>>

\* lines 310-322: the loop is over, send the summary
Reply ==
  /\ pc = "loop"
  /\ idx = Len(food_items)
  /\ replies' = Append(replies,
                       [kind |-> "summary",
                        added |-> successful_items,
                        failed |-> failed_items,
                        total |-> total_calories])
  /\ pc' = "done"
  /\ UNCHANGED <<text, known_foods, food_items, idx, total_calories,
                 successful_items, failed_items, calls>>

Next ==
  \/ FreeFormStart
  \/ ResolveFromDatabase
  \/ ResolveFromAI
  \/ Reply

Spec == Init /\ [][Next]_vars

\* parse_food_text alone, on the messages of the whole grammar
InitParse ==
  /\ text \in ParseTexts
  /\ known_foods = KF_MISSING
  /\ InitLocals

NextParse == FreeFormStart

SpecParse == InitParse /\ [][NextParse]_vars

---------------------------------------------------------------------------
(* Where the items come from in the text                                   *)

\* the matches ms of pattern k whose item is appended: the item's name, the
\* pattern and where the match starts
RECURSIVE HitsFrom(_, _)
HitsFrom(k, ms) ==
  LET Hit(m, appended) ==
        IF appended = <<>> THEN <<>>
        ELSE <<[food |-> appended[1].food, rule |-> k, start |-> m.start]>>
  IN  IF ms = <<>> THEN <<>>
      ELSE Hit(Head(ms), ItemOf(k, Head(ms))) \o HitsFrom(k, Tail(ms))

\* the appends to potential_items in the order they are made
Hits(s) ==
  HitsFrom(1, FindIter(1, s, 1)) \o HitsFrom(2, FindIter(2, s, 1))
    \o HitsFrom(3, FindIter(3, s, 1))

\* of the appends hs, the one that put the item named food into unique_items
FirstHit(hs, food) ==
  hs[CHOOSE i \in 1..Len(hs) :
       /\ strip(hs[i].food) = strip(food)
       /\ \A j \in 1..(i - 1) : strip(hs[j].food) # strip(food)]

\* for each mention of the list items parsed from the text s, the append it
\* comes from
MentionHits(s, items) ==
  LET Of(hs) == [i \in 1..Len(items) |-> FirstHit(hs, items[i].food)]
  IN  Of(Hits(lower(s)))

\* the cleaned name of an item, without the unit that Pattern 3 writes after it
BareName(item) ==
  IF item.unit \in {TBSP, TSP}
    THEN SubSeq(item.food, 1, Len(item.food) - Len(item.unit) - 3)
    ELSE item.food

\* how many entries of the sequence seq are e
Occurrences(seq, e) ==
  Cardinality({i \in 1..Len(seq) : seq[i] = e})

\* the names of successful_items
SuccessfulNames ==
  [i \in 1..Len(successful_items) |-> successful_items[i].name]

\* free_form_input is over: it returned or it raised
RunEnded ==
  pc \in {"done", "crashed"}

---------------------------------------------------------------------------
(* Properties                                                              *)

\* C1: the mentions parse_food_text returns hold at most one mention per bare
\* normalized name, a unit-qualified mention counting under its name without
\* the unit annotation.
C1_OneMentionPerBareName ==
  pc # "start" =>
    \A i, j \in 1..Len(food_items) :
      BareName(food_items[i]) = BareName(food_items[j]) => i = j

\* C2: when a run over a non-empty mention list ends, every mention is in
\* exactly one of successful_items and failed_items.
C2_EveryMentionInOneList ==
  RunEnded /\ food_items # <<>> =>
    \A i \in 1..Len(food_items) :
      Occurrences(SuccessfulNames, food_items[i].food)
        + Occurrences(failed_items, food_items[i].food) = 1

\* one append comes before another in potential_items: an earlier pattern, or
\* the same pattern and an earlier match
HitBefore(h1, h2) ==
  \/ h1.rule < h2.rule
  \/ h1.rule = h2.rule /\ h1.start < h2.start

\* the index of the mention named food
Position(food) ==
  CHOOSE i \in 1..Len(food_items) : food_items[i].food = food

\* the names are in the order of their mentions
InMentionOrder(names) ==
  \A a, b \in 1..Len(names) :
    a < b => Position(names[a]) < Position(names[b])

\* the mentions come in the order of the positions of their phrases
TextOrdered(hits) ==
  \A i, j \in 1..Len(hits) : hits[i].start < hits[j].start => i < j

\* the mentions come in the order of their appends to potential_items
PatternOrdered(hits) ==
  \A i, j \in 1..Len(hits) : i < j => HitBefore(hits[i], hits[j])

\* C3 (as stated): a mention whose phrase starts earlier in the text comes
\* earlier in the mention list, whatever pattern matched it, and
\* successful_items and failed_items both keep the mentions' order.
C3_TextOrder ==
  pc # "start" =>
    /\ TextOrdered(MentionHits(text, food_items))
    /\ InMentionOrder(SuccessfulNames)
    /\ InMentionOrder(failed_items)

\* C3 (amended): the mentions are ordered by pattern first (gram-qualified,
\* then bare-count, then unit-qualified) and by position in the text within a
\* pattern; successful_items and failed_items both keep the mentions' order.
C3_PatternThenTextOrder ==
  pc # "start" =>
    /\ PatternOrdered(MentionHits(text, food_items))
    /\ InMentionOrder(SuccessfulNames)
    /\ InMentionOrder(failed_items)

\* a run that ended with a success and a failure, whose second mention starts
\* before the first one in the text
C3_Witness ==
  /\ pc = "done"
  /\ Len(food_items) >= 2
  /\ ~TextOrdered(MentionHits(text, food_items))
  /\ Len(successful_items) >= 1
  /\ Len(failed_items) >= 1

\* the calls of get_macros_from_ai for the mention named food
AiCallsFor(food) ==
  {n \in 1..Len(calls) : calls[n].fn = "get_macros_from_ai" /\ calls[n].food = food}

\* the calls of add_food_to_notion for the mention named food
NotionCallsFor(food) ==
  {n \in 1..Len(calls) : calls[n].fn = "add_food_to_notion" /\ calls[n].food = food}

DatabaseCalls ==
  {n \in 2..Len(calls) :
     calls[n].fn = "add_food_to_notion" /\ calls[n - 1].fn = "match_known_food"}

\* the per-100 g profile of the table for the mention named food
Reference(food) ==
  known_foods[match_known_food(food, known_foods)]

\* v hundredths is reference (in thousandths per 100 g) times serving / 100,
\* rounded to 2 decimal places
RoundedScaled(v, reference, serving) ==
  2 * Abs(1000 * v - reference * serving) <= 1000

\* C5 (as stated): each field of a reference-matched mention is the reference
\* field times serving / 100 rounded to 2 decimal places; at 100 g the fields
\* are the reference's, unchanged, and at 0 g they are all zero.
C5_ScalingLawUnchangedAt100 ==
  \A n \in DatabaseCalls : \A f \in MacroFields :
    /\ RoundedScaled(calls[n].macros[f], Reference(calls[n].food)[f], calls[n].serving)
    /\ calls[n].serving = 100 => 10 * calls[n].macros[f] = Reference(calls[n].food)[f]
    /\ calls[n].serving = 0 => calls[n].macros[f] = 0

\* C5 (amended): each field of a reference-matched mention is the reference
\* field times serving / 100 rounded to 2 decimal places; at 100 g the fields
\* are the reference's rounded to 2 decimal places, and at 0 g they are all zero.
C5_ScalingLaw ==
  \A n \in DatabaseCalls : \A f \in MacroFields :
    /\ RoundedScaled(calls[n].macros[f], Reference(calls[n].food)[f], calls[n].serving)
    /\ calls[n].serving = 100 =>
         2 * Abs(10 * calls[n].macros[f] - Reference(calls[n].food)[f]) <= 10
    /\ calls[n].serving = 0 => calls[n].macros[f] = 0

\* a run in which the table matched a mention of 100 g, whose reference has a
\* third decimal, and a mention of 0 g
C5_Witness ==
  /\ \E n \in DatabaseCalls :
       /\ calls[n].serving = 100
       /\ \E f \in MacroFields : 10 * calls[n].macros[f] # Reference(calls[n].food)[f]
  /\ \E n \in DatabaseCalls : calls[n].serving = 0

\* C6: every mention parse_food_text returns has a serving size in grams
\* strictly greater than 0.
C6_ServingPositive ==
  \A i \in 1..Len(food_items) : food_items[i].serving > 0

\* C7: with zero mentions the run replies once that it could not identify any
\* food and ends, with no call and no list or total; with at least one
\* mention that reply is never sent, and a run that ends sends the summary.
C7_NoUsableMention ==
  pc # "start" =>
    /\ food_items = parse_food_text(text)
    /\ food_items = <<>> =>
         /\ pc = "done"
         /\ replies = <<[kind |-> "not_identified"]>>
         /\ calls = <<>>
         /\ successful_items = <<>> /\ failed_items = <<>> /\ total_calories = 0
    /\ food_items # <<>> =>
         /\ \A k \in 1..Len(replies) : replies[k].kind = "summary"
         /\ pc = "done" => Len(replies) = 1

\* a message that is not empty and has no mention was answered
C7_Witness ==
  /\ pc = "done"
  /\ text # <<>>
  /\ parse_food_text(text) = <<>>
  /\ replies = <<[kind |-> "not_identified"]>>
\* the message is the one gram-qualified phrase '<q>g <name>' or '<q> g <name>'
IsGramPhrase(q, sep, n) ==
  text = GramPhrase(q, sep, n.raw)

\* what C8 says parse_food_text returns for the quantity q and the name n
OneGramMention(q, n) ==
  /\ Len(food_items) = 1
  /\ food_items[1].food = n.norm
  /\ food_items[1].serving = q
  /\ food_items[1].unit = UNIT_G

\* C8 (as stated): for a message that is one gram-qualified phrase, with or
\* without a space between the integer and the g, parse_food_text returns
\* exactly one mention, named by the normalized name, whose serving is the
\* integer.
C8_GramPhraseOneMention ==
  pc # "start" =>
    \A q \in Quantities, sep \in {<<>>, SP}, n \in FoodNames :
      IsGramPhrase(q, sep, n) => OneGramMention(q, n)

\* C8 (amended): the same for a name whose normalized form has at least 2
\* characters; a shorter name gives no mention.
C8_GramPhraseOneMentionOfLongName ==
  pc # "start" =>
    \A q \in Quantities, sep \in {<<>>, SP}, n \in FoodNames :
      IsGramPhrase(q, sep, n) =>
        IF Len(n.norm) >= 2 THEN OneGramMention(q, n) ELSE food_items = <<>>

\* '100 g Olive oil' was parsed: the bare-count pattern hit the phrase too, and
\* one mention is left
C8_Witness ==
  /\ pc = "loop"
  /\ \E n \in FoodNames : Len(n.raw) > 6 /\ IsGramPhrase(100, SP, n)
  /\ ItemsOf(2, lower(text)) # <<>>
  /\ Len(food_items) = 1

\* C9: match_known_food does not depend on letter case: a name that equals a
\* key of the table when case is ignored is matched, to such a key.
C9_CaseInsensitiveMatch ==
  \A n \in 1..Len(calls) :
    (/\ calls[n].fn = "match_known_food"
     /\ \E key \in DOMAIN known_foods : lower(key) = lower(calls[n].food))
      => /\ match_known_food(calls[n].food, known_foods) # None
         /\ lower(match_known_food(calls[n].food, known_foods)) = lower(calls[n].food)

\* the grams of one unit
UnitGrams(unit) ==
  IF unit \in {TBSP, TABLESPOON} THEN 14 ELSE 5

\* C10: for a message that is one unit-qualified phrase '<q> <unit> <name>',
\* parse_food_text returns exactly one mention, whose serving is q times 14
\* for tbsp and tablespoon and q times 5 for tsp and teaspoon.
C10_UnitPhraseOneMention ==
  pc # "start" =>
    \A q \in Quantities, k \in 1..Len(UnitAlternation), n \in FoodNames :
      (text = UnitPhrase(q, UnitAlternation[k], n.raw) /\ Len(n.norm) >= 2) =>
        /\ Len(food_items) = 1
        /\ food_items[1].serving = q * UnitGrams(UnitAlternation[k])

\* the name is one word
OneWord(n) ==
  \A i \in 1..Len(n.raw) : n.raw[i] \notin Space

\* C11: for a message that is one bare-count phrase '<q> <word>', the word
\* having 2 letters or more, parse_food_text returns exactly one mention,
\* named by the whole normalized word, whose serving is q times the word's
\* standard serving (100 when it has none), also when the word begins with g.
C11_BarePhraseOneMention ==
  pc # "start" =>
    \A q \in Quantities, n \in FoodNames :
      (text = BarePhrase(q, n.raw) /\ OneWord(n) /\ Len(n.norm) >= 2) =>
        /\ Len(food_items) = 1
        /\ food_items[1].food = n.norm
        /\ food_items[1].serving = q * standard_serving(lower(n.norm))
        /\ food_items[1].unit = UNIT_PIECES
====
